---------------------------- MODULE Spec2Model ----------------------------
(***************************************************************************)
(* India electricity plan: src/india-electricity-plan/model_gurobi.py.     *)
(*                                                                         *)
(* The script is one pass: load three tables, create the variables of a    *)
(* linear program, set its objective, add six families of constraints,    *)
(* call the solver once and print a report.  The state machine below has   *)
(* one action per block of the script; pc names the block that runs next.  *)
(*                                                                         *)
(* Number representation (the script computes in floating point; all       *)
(* quantities here are exact fixed-point integers):                        *)
(*   money     ticks; MoneyDen ticks make 10^UnitExp rupees                *)
(*   capacity  MW                                                          *)
(*   goals     GoalDen-ths of a GW (the "Target Value" column)             *)
(*   solver values of the three physical slacks (MW, MWh, kg) and every    *)
(*             investment/capital_cost quotient: PhysScale-ths             *)
(***************************************************************************)
EXTENDS Integers, FiniteSets, Sequences, TLC

VARIABLES
    sources,           \* emissions_data["Source"]: the rows of the emissions table
    capital_cost,      \* source -> ticks per MW
    current_capacity,  \* source -> MW
    emission_factors,  \* source -> kg CO2 per kWh
    goals_data,        \* goal label -> Target Value, in GoalDen-ths of a GW
    target_capacity,   \* source -> MW, built from goals_data (lines 55-59)
    filtered_sources,  \* line 64
    total_renewable_capacity_target,    \* line 115, MW
    total_renewable_production_target,  \* line 116, millionths of a BU (= MWh)
    total_emission_target,              \* line 143, PhysScale-ths of a kg CO2
    pc,                \* the block of the script that runs next
    modelVars,         \* names of the variable families created in the model
    objectiveSet,      \* model.setObjective has run
    constrs,           \* names of the constraint families added to the model
    crash,             \* "" or the exception that ended the run
    crashLine,         \* source line that raised it (0: none)
    optimizeCalls,     \* number of model.optimize() calls made
    status,            \* model.status after optimize ("LOADED" before)
    X,                 \* the solver's values (.X), a record; NoValues before
    valuesRead,        \* some .X has been read by the script
    report             \* what the run printed, a record (NoReport before)

vars == <<sources, capital_cost, current_capacity, emission_factors, goals_data,
          target_capacity, filtered_sources, total_renewable_capacity_target,
          total_renewable_production_target, total_emission_target, pc, modelVars, objectiveSet, constrs, crash, crashLine,
          optimizeCalls, status, X, valuesRead, report>>

inputVars == <<sources, capital_cost, current_capacity, emission_factors, goals_data>>

dataVars == <<target_capacity, filtered_sources>>

targetVars == <<total_renewable_capacity_target, total_renewable_production_target,
                total_emission_target>>

-----------------------------------------------------------------------------
(* Bounds of the model *)

\* Capacities (current, and target) range over 0..MaxMW megawatts.
MaxMW == 1

\* The solver's candidate investments are 0..MaxInvSteps steps of InvStep per
\* source and year, and at most MaxPlanSteps steps per year over all sources.
MaxInvSteps == 2
MaxPlanSteps == 4

-----------------------------------------------------------------------------
(* Fixed-point units *)

UnitExp == 11
GoalDen == 1000

FirstYear == 2024
LastYear == 2030
years == FirstYear..LastYear
NumYears == Cardinality(years)

\* Ticks per 10^UnitExp rupees: a fifth of a year's share of any budget is whole.
MoneyDen == 5 * NumYears

RECURSIVE Pow10(_)
Pow10(e) == IF e = 0 THEN 1 ELSE 10 * Pow10(e - 1)

\* A Python float literal <m>e<x> is m * 10^x; here in ticks.
FloatLiteral(m, x) == m * Pow10(x - UnitExp) * MoneyDen

Max(a, b) == IF a >= b THEN a ELSE b

\* The names a table can hold, in a fixed order (sums run along it).
SourceNames ==
    <<"Solar", "Wind", "Hydropower", "Biomass", "Nuclear", "Coal", "Natural Gas">>

\* sum(f[s] for s in S), S a set of sources
SumOver(S, f) ==
    LET Upto[i \in 0..Len(SourceNames)] ==
            IF i = 0 THEN 0
            ELSE (IF SourceNames[i] \in S THEN f[SourceNames[i]] ELSE 0) + Upto[i - 1]
    IN  Upto[Len(SourceNames)]

-----------------------------------------------------------------------------
(* Constants of the script *)

\* capacity_factors, in tenths
capacity_factors ==
    [s \in {"Solar", "Wind", "Hydropower", "Biomass", "Nuclear", "Coal", "Natural Gas"} |->
        CASE s = "Solar" -> 2 [] s = "Wind" -> 3 [] s = "Hydropower" -> 4
          [] s = "Biomass" -> 7 [] s = "Nuclear" -> 9 [] s = "Coal" -> 8
          [] s = "Natural Gas" -> 5]

HoursPerYear == 8760

\* capacity_factors[s] * 8760: full-load hours per year (exact: 8760 is a multiple of 10)
LoadHours(s) == (capacity_factors[s] * HoursPerYear) \div 10

goal_mappings ==
    [g \in {"Coal Capacity (GW)", "Natural Gas Capacity (GW)", "Nuclear Capacity (GW)",
            "Solar Capacity (GW)", "Wind Capacity (GW)", "Hydropower Capacity (GW)",
            "Biomass Capacity (GW)"} |->
        CASE g = "Coal Capacity (GW)" -> "Coal"
          [] g = "Natural Gas Capacity (GW)" -> "Natural Gas"
          [] g = "Nuclear Capacity (GW)" -> "Nuclear"
          [] g = "Solar Capacity (GW)" -> "Solar"
          [] g = "Wind Capacity (GW)" -> "Wind"
          [] g = "Hydropower Capacity (GW)" -> "Hydropower"
          [] g = "Biomass Capacity (GW)" -> "Biomass"]

GoalOf(s) == CHOOSE g \in DOMAIN goal_mappings : goal_mappings[g] = s

renewable_sources == {"Solar", "Wind", "Hydropower", "Biomass"}

PenaltyNum == 11
PenaltyDen == 10


-----------------------------------------------------------------------------
(* Data extracted from the tables (lines 31-64) *)

\* lines 55-59: GW -> MW (row["Target Value"] * 1000), recognised goals only
TargetCapacityOf(goals) ==
    [s \in {goal_mappings[g] : g \in (DOMAIN goals) \cap (DOMAIN goal_mappings)} |->
        (goals[GoalOf(s)] * 1000) \div GoalDen]

\* line 64
FilteredSources == {s \in sources : s \in DOMAIN TargetCapacityOf(goals_data)}

-----------------------------------------------------------------------------
(* Right-hand sides computed while the constraints are built (lines 90-175) *)

\* Variant of line 93 with the gap taken the other way round.
total_target_cost_reversed(source) ==
    (current_capacity[source] - target_capacity[source]) * capital_cost[source]

\* (target_capacity - current_capacity) * capital_cost, line 93
total_target_cost(source) ==
    (target_capacity[source] - current_capacity[source]) * capital_cost[source]

\* Variant of line 100 with the literal read as 10^11.
total_investment_budget_1e11 == 44 * FloatLiteral(1, 11)

\* 44*10e11, line 100
total_investment_budget == 44 * FloatLiteral(10, 11)

average_annual_investment == total_investment_budget \div NumYears

\* 0.8 * average_annual_investment and 1.2 * average_annual_investment, lines 105-106
min_annual_budget == (8 * average_annual_investment) \div 10
max_annual_budget == (12 * average_annual_investment) \div 10

\* One step of the solver's candidate grid and of the input capital costs.
InvStep == min_annual_budget \div 2
CostStep == NumYears * InvStep

\* Solver values of physical quantities are kept in PhysScale-ths.
PhysScale == 2 * NumYears * 250

\* sum(target_capacity[s] for s in renewable_sources), MW, line 115
RenewableCapacityTarget ==
    SumOver(renewable_sources, [s \in renewable_sources |-> target_capacity[s]])

\* line 116-122, in millionths of a BU (= MWh): the script divides by 1e6 here
\* and multiplies by 1e6 again wherever it uses the value in a constraint
RenewableProductionTarget ==
    SumOver(renewable_sources,
            [s \in renewable_sources |->
                (target_capacity[s] - current_capacity[s]) * LoadHours(s)])

\* line 143-150, kg CO2, in PhysScale-ths
EmissionTarget ==
    43 * total_renewable_production_target * (PhysScale \div 100)
    + SumOver(filtered_sources,
              [s \in filtered_sources |->
                  (emission_factors[s] * (target_capacity[s] - current_capacity[s])
                     * LoadHours(s) * PhysScale) \div 1000])

-----------------------------------------------------------------------------
(* Linear expressions of the model over an assignment a of values *)

\* sum(f[y] for y in years)
SumOverYears(f) ==
    LET Upto[y \in (FirstYear - 1)..LastYear] ==
            IF y < FirstYear THEN 0 ELSE f[y] + Upto[y - 1]
    IN  Upto[LastYear]

\* investment.sum(source, '*')
InvestmentOfSource(a, source) ==
    SumOverYears([y \in years |-> a.Investment[<<source, y>>]])

\* investment.sum('*', year)
InvestmentOfYear(a, year) ==
    SumOver(filtered_sources, [s \in filtered_sources |-> a.Investment[<<s, year>>]])

\* investment[source, year] / capital_cost[source], summed over the years; PhysScale-ths of a MW
CapacityAdded(a, source) ==
    (InvestmentOfSource(a, source) * PhysScale) \div capital_cost[source]

\* lines 125-127
RenewableCapacityExpr(a) ==
    SumOver(renewable_sources, [s \in renewable_sources |-> CapacityAdded(a, s)])

\* lines 133-135
RenewableProductionExpr(a) ==
    SumOver(renewable_sources,
            [s \in renewable_sources |-> CapacityAdded(a, s) * LoadHours(s)])

\* lines 170-172
EmissionsExpr(a) ==
    SumOver(filtered_sources,
            [s \in filtered_sources |-> CapacityAdded(a, s) * emission_factors[s]])

-----------------------------------------------------------------------------
(* The constraints of the model, by the name the script gives them *)

\* Target_{source}, line 95
TargetHolds(a, source) ==
    InvestmentOfSource(a, source) + a.Slack_Target[source] >= total_target_cost(source)

\* Min_Budget_{year}, line 109
MinBudgetHolds(a, year) ==
    InvestmentOfYear(a, year) + a.Slack_Min_Budget[year] >= min_annual_budget

\* Max_Budget_{year}, line 110
MaxBudgetHolds(a, year) ==
    InvestmentOfYear(a, year) <= max_annual_budget + a.Slack_Max_Budget[year]

\* Renewable_Capacity, lines 124-130
RenewableCapacityHolds(a) ==
    RenewableCapacityExpr(a) + a.Slack_Renewable_Capacity
        >= total_renewable_capacity_target * PhysScale

\* Renewable_Production, lines 132-138
RenewableProductionHolds(a) ==
    RenewableProductionExpr(a) + a.Slack_Renewable_Production
        >= total_renewable_production_target * PhysScale

\* Variant of lines 169-175 with the slack on the left-hand side.
EmissionsHoldsSlackOnLeft(a) ==
    EmissionsExpr(a) + a.Slack_Emissions <= total_emission_target

\* Emissions, lines 169-175
EmissionsHolds(a) ==
    EmissionsExpr(a) <= total_emission_target + a.Slack_Emissions

\* lb=0.0 of every addVars/addVar, lines 68-76
LowerBoundsHold(a) ==
    /\ \A p \in DOMAIN a.Investment : a.Investment[p] >= 0
    /\ \A s \in DOMAIN a.Slack_Target : a.Slack_Target[s] >= 0
    /\ \A y \in years : a.Slack_Min_Budget[y] >= 0 /\ a.Slack_Max_Budget[y] >= 0
    /\ a.Slack_Renewable_Capacity >= 0
    /\ a.Slack_Renewable_Production >= 0
    /\ a.Slack_Emissions >= 0

\* a satisfies the bounds and every constraint added to the model so far
Feasible(a) ==
    /\ LowerBoundsHold(a)
    /\ "Target" \in constrs => \A s \in filtered_sources : TargetHolds(a, s)
    /\ "Min_Budget" \in constrs => \A y \in years : MinBudgetHolds(a, y)
    /\ "Max_Budget" \in constrs => \A y \in years : MaxBudgetHolds(a, y)
    /\ "Renewable_Capacity" \in constrs => RenewableCapacityHolds(a)
    /\ "Renewable_Production" \in constrs => RenewableProductionHolds(a)
    /\ "Emissions" \in constrs => EmissionsHolds(a)

-----------------------------------------------------------------------------
(* The objective, lines 79-88 *)

\* the investment term of the objective, line 81 (and line 190 of the report)
TotalInvestment(a) ==
    SumOver(filtered_sources, [s \in filtered_sources |-> InvestmentOfSource(a, s)])

\* Variant of lines 82-84 without the target slack.
MoneySlackWithoutTarget(a) ==
    SumOverYears([y \in years |-> a.Slack_Min_Budget[y] + a.Slack_Max_Budget[y]])

\* the slack terms of the objective that are amounts of money, lines 83-84
MoneySlack(a) ==
    SumOver(filtered_sources, a.Slack_Target)
    + SumOverYears([y \in years |-> a.Slack_Min_Budget[y] + a.Slack_Max_Budget[y]])

\* the slack terms of the objective that are physical quantities, line 85
PhysicalSlack(a) ==
    a.Slack_Renewable_Capacity + a.Slack_Renewable_Production + a.Slack_Emissions

(***************************************************************************)
(* investment + penalty_factor * slack.  With T = 10^UnitExp/MoneyDen      *)
(* rupees per tick, the objective times PenaltyDen * PhysScale is          *)
(*     money * (T * PhysScale) + phys                                      *)
(* for the two numbers below.  T * PhysScale is 10^13 and phys is below    *)
(* 2^31, so the objective is this two-digit number, compared digit by      *)
(* digit.                                                                  *)
(***************************************************************************)
ObjectiveValue(a) ==
    [money |-> PenaltyDen * TotalInvestment(a) + PenaltyNum * MoneySlack(a),
     phys  |-> PenaltyNum * PhysicalSlack(a)]

\* GRB.MINIMIZE, line 87: the order in which objective values are compared
ObjLess(o, p) == o.money < p.money \/ (o.money = p.money /\ o.phys < p.phys)

-----------------------------------------------------------------------------
(* The solver, model.optimize() of line 182                                *)
(*                                                                         *)
(* gurobipy is not part of the repository.  Its contract: status OPTIMAL   *)
(* comes with a feasible assignment of least objective value; INFEASIBLE   *)
(* means that no assignment is feasible.  The assignments searched here    *)
(* are bounded: the same investment in every year of the horizon, a whole  *)
(* number of InvStep per source (the program is symmetric in the years, so *)
(* some optimum invests the same in every year), with every slack either   *)
(* at the least value the investment allows or, for one family, one unit   *)
(* above it.  A year's budget is 2 to 3 steps, so the plans lie on either  *)
(* side of every budget constraint.                                        *)
(***************************************************************************)

\* The plans searched: steps per source, the same in every year.
Plans ==
    {k \in [filtered_sources -> 0..MaxInvSteps] :
        SumOver(filtered_sources, k) <= MaxPlanSteps}

SlackFamilies ==
    {"Slack_Target", "Slack_Min_Budget", "Slack_Max_Budget",
     "Slack_Renewable_Capacity", "Slack_Renewable_Production", "Slack_Emissions"}

NoValues ==
    [Investment |-> [p \in {} |-> 0],
     Slack_Target |-> [s \in {} |-> 0],
     Slack_Min_Budget |-> [y \in years |-> 0],
     Slack_Max_Budget |-> [y \in years |-> 0],
     Slack_Renewable_Capacity |-> 0,
     Slack_Renewable_Production |-> 0,
     Slack_Emissions |-> 0]

\* f with every value computed (TLC otherwise recomputes f[x] at each use).
Explicit(f) == f @@ << >>

\* The investment of plan k: k[s] steps for source s in every year.
PlanInvestment(k) ==
    Explicit([p \in filtered_sources \X years |-> k[p[1]] * InvStep])

\* Investment inv with every slack at the least value that satisfies its constraint.
WithLeastSlack(inv) ==
    LET a == [NoValues EXCEPT !.Investment = inv]
    IN  [Investment |-> inv,
         Slack_Target |->
            Explicit([s \in filtered_sources |->
                Max(0, total_target_cost(s) - InvestmentOfSource(a, s))]),
         Slack_Min_Budget |->
            Explicit([y \in years |-> Max(0, min_annual_budget - InvestmentOfYear(a, y))]),
         Slack_Max_Budget |->
            Explicit([y \in years |-> Max(0, InvestmentOfYear(a, y) - max_annual_budget)]),
         Slack_Renewable_Capacity |->
            Max(0, total_renewable_capacity_target * PhysScale - RenewableCapacityExpr(a)),
         Slack_Renewable_Production |->
            Max(0, total_renewable_production_target * PhysScale - RenewableProductionExpr(a)),
         Slack_Emissions |->
            Max(0, EmissionsExpr(a) - total_emission_target)]

\* a with one unit more of every slack of family f ("" for none)
Loosened(a, f) ==
    CASE f = "" -> a
      [] f = "Slack_Target" ->
            [a EXCEPT !.Slack_Target = Explicit([s \in DOMAIN @ |-> @[s] + 1])]
      [] f = "Slack_Min_Budget" ->
            [a EXCEPT !.Slack_Min_Budget = Explicit([y \in DOMAIN @ |-> @[y] + 1])]
      [] f = "Slack_Max_Budget" ->
            [a EXCEPT !.Slack_Max_Budget = Explicit([y \in DOMAIN @ |-> @[y] + 1])]
      [] f = "Slack_Renewable_Capacity" -> [a EXCEPT !.Slack_Renewable_Capacity = @ + 1]
      [] f = "Slack_Renewable_Production" -> [a EXCEPT !.Slack_Renewable_Production = @ + 1]
      [] f = "Slack_Emissions" -> [a EXCEPT !.Slack_Emissions = @ + 1]

\* The candidates, each named by its plan k and its loosened family f.
Candidate(c) == Loosened(WithLeastSlack(PlanInvestment(c.k)), c.f)

\* The feasible candidates with their objective values.
Scored ==
    UNION {LET least == WithLeastSlack(PlanInvestment(k))
           IN  {r \in {LET a == Loosened(least, f)
                       IN  [c |-> [k |-> k, f |-> f],
                            feasible |-> Feasible(a),
                            o |-> ObjectiveValue(a)] : f \in {""} \cup SlackFamilies} :
                    r.feasible} :
           k \in Plans}

\* The least objective value among the scored candidates.
LeastObjective(scored) ==
    LET values == {r.o : r \in scored}
    IN  CHOOSE o \in values : \A p \in values : ~ObjLess(p, o)

\* The assignments the solver may return with status OPTIMAL.
OptimalAssignments ==
    LET scored == Scored
    IN  IF scored = {} THEN {}
        ELSE LET best == LeastObjective(scored)
             IN  {Candidate(r.c) : r \in {r2 \in scored : r2.o = best}}

-----------------------------------------------------------------------------
(* The input tables (lines 22-26) *)

\* The rows of the emissions table and the sources that have a goal row.
Datasets ==
    {[data |-> {"Solar"}, goals |-> {"Solar"}],
     [data |-> {"Solar"}, goals |-> renewable_sources],
     [data |-> renewable_sources, goals |-> renewable_sources],
     [data |-> renewable_sources \cup {"Coal"}, goals |-> renewable_sources \cup {"Coal"}]}

\* A column whose value is v for Biomass and b for every other row.
Column(S, b, v) == [s \in S |-> IF s = "Biomass" THEN v ELSE b]

\* Capital costs of the input, in CostStep per MW.
CostSteps == 0..2

\* Emission factors of the input, kg CO2 per kWh: none, or the burning sources.
EmissionColumns(S) ==
    {[s \in S |-> 0],
     [s \in S |-> IF s \in {"Biomass", "Coal"} THEN 1 ELSE 0]}

NoReport ==
    [printed |-> FALSE,
     total_investment_made |-> 0,
     source_investment |-> [s \in {} |-> 0],
     year_investment |-> {},
     target_shortfall |-> [s \in {} |-> 0],
     total_year_investment |-> [y \in {} |-> 0],
     min_budget_shortfall |-> [y \in {} |-> 0],
     max_budget_exceeded |-> [y \in {} |-> 0],
     renewable_capacity_achieved |-> 0,
     renewable_capacity_shortfall |-> {},
     renewable_production_achieved |-> 0,
     renewable_production_shortfall |-> {},
     emissions_produced |-> 0,
     emissions_message |-> "",
     emissions_delta |-> 0,
     failure_status |-> ""]

Init ==
    /\ \E d \in Datasets :
       \E tb \in 0..MaxMW, tv \in 0..MaxMW, cb \in 0..MaxMW, cur \in 0..MaxMW :
       \E cv \in CostSteps :
       \E ef \in EmissionColumns(d.data) :
          /\ sources = d.data
          /\ capital_cost = Column(d.data, CostStep, cv * CostStep)
          /\ current_capacity = Column(d.data, cb, cur)
          /\ emission_factors = ef
          /\ goals_data =
                [g \in {GoalOf(s) : s \in d.goals} \cup {"Renewable Share (%)"} |->
                    IF g \in DOMAIN goal_mappings
                    THEN Column(d.goals, tb, tv)[goal_mappings[g]]
                    ELSE 50 * GoalDen]
    /\ target_capacity = [s \in {} |-> 0]
    /\ filtered_sources = {}
    /\ total_renewable_capacity_target = 0
    /\ total_renewable_production_target = 0
    /\ total_emission_target = 0
    /\ pc = "extract"
    /\ modelVars = {}
    /\ objectiveSet = FALSE
    /\ constrs = {}
    /\ crash = ""
    /\ crashLine = 0
    /\ optimizeCalls = 0
    /\ status = "LOADED"
    /\ X = NoValues
    /\ valuesRead = FALSE
    /\ report = NoReport

-----------------------------------------------------------------------------
(* The blocks of the script *)

Raise(exception, line) ==
    /\ pc' = "crashed"
    /\ crash' = exception
    /\ crashLine' = line

\* lines 31-65
ExtractData ==
    /\ pc = "extract"
    /\ target_capacity' = TargetCapacityOf(goals_data)
    /\ filtered_sources' = FilteredSources
    /\ pc' = "variables"
    /\ UNCHANGED <<inputVars, targetVars, modelVars, objectiveSet, constrs, crash,
                   crashLine, optimizeCalls, status, X, valuesRead, report>>

\* lines 67-76
CreateVariables ==
    /\ pc = "variables"
    /\ modelVars' = {"Investment"} \cup SlackFamilies
    /\ pc' = "objective"
    /\ UNCHANGED <<inputVars, dataVars, targetVars, objectiveSet, constrs, crash, crashLine,
                   optimizeCalls, status, X, valuesRead, report>>

\* lines 78-88
SetObjective ==
    /\ pc = "objective"
    /\ objectiveSet' = TRUE
    /\ pc' = "target"
    /\ UNCHANGED <<inputVars, dataVars, targetVars, modelVars, constrs, crash, crashLine,
                   optimizeCalls, status, X, valuesRead, report>>

\* lines 90-98: every key used is a source of filtered_sources
AddTargetConstraints ==
    /\ pc = "target"
    /\ constrs' = constrs \cup {"Target"}
    /\ pc' = "budget"
    /\ UNCHANGED <<inputVars, dataVars, targetVars, modelVars, objectiveSet, crash, crashLine,
                   optimizeCalls, status, X, valuesRead, report>>

\* lines 100-111
AddBudgetConstraints ==
    /\ pc = "budget"
    /\ constrs' = constrs \cup {"Min_Budget", "Max_Budget"}
    /\ pc' = "renewable"
    /\ UNCHANGED <<inputVars, dataVars, targetVars, modelVars, objectiveSet, crash, crashLine,
                   optimizeCalls, status, X, valuesRead, report>>

\* line 115 reads target_capacity[source], line 117 current_capacity[source],
\* for each of the four renewable sources
RenewableKeysPresent ==
    /\ renewable_sources \subseteq DOMAIN target_capacity
    /\ renewable_sources \subseteq sources

\* lines 113-122 with a renewable source missing from a table
RenewableTargetsKeyError ==
    /\ pc = "renewable"
    /\ ~RenewableKeysPresent
    /\ IF ~(renewable_sources \subseteq DOMAIN target_capacity)
       THEN Raise("KeyError", 115)
       ELSE Raise("KeyError", 117)
    /\ UNCHANGED <<inputVars, dataVars, targetVars, modelVars, objectiveSet, constrs,
                   optimizeCalls, status, X, valuesRead, report>>

(***************************************************************************)
(* investment[s, y] / capital_cost[s] with a capital cost of zero.  What   *)
(* the division does is the library's business: it raises at once          *)
(* (ZeroDivisionError), or it yields an infinite coefficient that the      *)
(* library rejects when the constraint is added or, at the latest, when    *)
(* the model is optimized (GurobiError).                                   *)
(***************************************************************************)
ZeroCost(S) == \E s \in S : capital_cost[s] = 0

\* lines 124-138 raising on a zero capital cost
RenewableDivisionError ==
    /\ pc = "renewable"
    /\ RenewableKeysPresent
    /\ ZeroCost(renewable_sources)
    /\ \E e \in {"ZeroDivisionError", "GurobiError"} : Raise(e, 125)
    /\ UNCHANGED <<inputVars, dataVars, targetVars, modelVars, objectiveSet, constrs,
                   optimizeCalls, status, X, valuesRead, report>>

\* lines 113-140
AddRenewableConstraints ==
    /\ pc = "renewable"
    /\ RenewableKeysPresent
    /\ total_renewable_capacity_target' = RenewableCapacityTarget
    /\ total_renewable_production_target' = RenewableProductionTarget
    /\ constrs' = constrs \cup {"Renewable_Capacity", "Renewable_Production"}
    /\ pc' = "emissions"
    /\ UNCHANGED <<inputVars, dataVars, total_emission_target, modelVars, objectiveSet, crash, crashLine,
                   optimizeCalls, status, X, valuesRead, report>>

\* lines 169-175 raising on a zero capital cost
EmissionsDivisionError ==
    /\ pc = "emissions"
    /\ ZeroCost(filtered_sources)
    /\ \E e \in {"ZeroDivisionError", "GurobiError"} : Raise(e, 170)
    /\ UNCHANGED <<inputVars, dataVars, targetVars, modelVars, objectiveSet, constrs,
                   optimizeCalls, status, X, valuesRead, report>>

\* lines 142-175
AddEmissionsConstraint ==
    /\ pc = "emissions"
    /\ total_emission_target' = EmissionTarget
    /\ constrs' = constrs \cup {"Emissions"}
    /\ pc' = "optimize"
    /\ UNCHANGED <<inputVars, dataVars, total_renewable_capacity_target,
                   total_renewable_production_target, modelVars, objectiveSet, crash, crashLine,
                   optimizeCalls, status, X, valuesRead, report>>

\* line 182 with an infinite coefficient in the model
OptimizeError ==
    /\ pc = "optimize"
    /\ ZeroCost(filtered_sources \cup renewable_sources)
    /\ optimizeCalls' = optimizeCalls + 1
    /\ Raise("GurobiError", 182)
    /\ UNCHANGED <<inputVars, dataVars, targetVars, modelVars, objectiveSet, constrs,
                   status, X, valuesRead, report>>

\* lines 177-182.  Besides OPTIMAL and INFEASIBLE a solve can end in other
\* statuses: SUBOPTIMAL leaves a solution behind, NUMERIC does not.
Optimize ==
    /\ pc = "optimize"
    /\ ~ZeroCost(filtered_sources \cup renewable_sources)
    /\ optimizeCalls' = optimizeCalls + 1
    /\ \E optimal \in {OptimalAssignments} :
           \/ /\ optimal = {}
              /\ status' = "INFEASIBLE"
              /\ X' = NoValues
           \/ /\ optimal # {}
              /\ status' = "OPTIMAL"
              /\ X' \in optimal
           \/ /\ optimal # {}
              /\ status' = "SUBOPTIMAL"
              /\ X' \in optimal
           \/ /\ optimal # {}
              /\ status' = "NUMERIC"
              /\ X' = NoValues
    /\ pc' = "check_status"
    /\ UNCHANGED <<inputVars, dataVars, targetVars, modelVars, objectiveSet, constrs, crash, crashLine,
                   valuesRead, report>>

-----------------------------------------------------------------------------
(* The report (lines 184-257) *)

\* value > 0.5 for a money value: one tick is 10^UnitExp/MoneyDen rupees, far
\* more than half a rupee, so every positive number of ticks is above 0.5
AboveThresholdMoney(v) == v > 0

\* value > 0.5 for a value kept in PhysScale-ths
AboveThresholdPhys(v) == 2 * v > PhysScale

\* sum(... * emission_factors[source] * 8760 ...), lines 227-231, PhysScale-ths of a kg
emissions_produced(a) == EmissionsExpr(a) * HoursPerYear

\* The report printed for the values a.
Printed(a) ==
    LET printedSources == {s \in filtered_sources : InvestmentOfSource(a, s) > 0}
        produced == emissions_produced(a)
    IN  [printed |-> TRUE,
         total_investment_made |-> TotalInvestment(a),
         source_investment |-> [s \in printedSources |-> InvestmentOfSource(a, s)],
         year_investment |->
            {p \in printedSources \X years : AboveThresholdMoney(a.Investment[p])},
         target_shortfall |->
            [s \in {s2 \in filtered_sources : AboveThresholdMoney(a.Slack_Target[s2])} |->
                a.Slack_Target[s]],
         total_year_investment |-> [y \in years |-> InvestmentOfYear(a, y)],
         min_budget_shortfall |->
            [y \in {y2 \in years : AboveThresholdMoney(a.Slack_Min_Budget[y2])} |->
                a.Slack_Min_Budget[y]],
         max_budget_exceeded |->
            [y \in {y2 \in years : AboveThresholdMoney(a.Slack_Max_Budget[y2])} |->
                a.Slack_Max_Budget[y]],
         renewable_capacity_achieved |-> RenewableCapacityExpr(a),
         renewable_capacity_shortfall |->
            IF AboveThresholdPhys(a.Slack_Renewable_Capacity)
            THEN {a.Slack_Renewable_Capacity} ELSE {},
         renewable_production_achieved |-> RenewableProductionExpr(a),
         renewable_production_shortfall |->
            IF AboveThresholdPhys(a.Slack_Renewable_Production)
            THEN {a.Slack_Renewable_Production} ELSE {},
         emissions_produced |-> produced,
         emissions_message |->
            IF produced > total_emission_target THEN "exceed" ELSE "below",
         emissions_delta |->
            IF produced > total_emission_target
            THEN produced - total_emission_target
            ELSE total_emission_target - produced,
         failure_status |-> ""]

\* Variant of line 184 that asks whether the solve left a solution.
HasSolution(st) == st \in {"OPTIMAL", "SUBOPTIMAL"}

\* model.status == GRB.OPTIMAL, line 184
IsOptimal(st) == st = "OPTIMAL"

\* lines 184-254: the branch taken on GRB.OPTIMAL
Analyze ==
    /\ pc = "check_status"
    /\ IsOptimal(status)
    /\ valuesRead' = TRUE
    /\ report' = Printed(X)
    /\ pc' = "done"
    /\ UNCHANGED <<inputVars, dataVars, targetVars, modelVars, objectiveSet, constrs, crash, crashLine,
                   optimizeCalls, status, X>>

\* lines 255-257: the else branch logs the status and the run ends
LogFailure ==
    /\ pc = "check_status"
    /\ ~IsOptimal(status)
    /\ report' = [NoReport EXCEPT !.failure_status = status]
    /\ pc' = "done"
    /\ UNCHANGED <<inputVars, dataVars, targetVars, modelVars, objectiveSet, constrs, crash, crashLine,
                   optimizeCalls, status, X, valuesRead>>

Next ==
    \/ ExtractData
    \/ CreateVariables
    \/ SetObjective
    \/ AddTargetConstraints
    \/ AddBudgetConstraints
    \/ RenewableTargetsKeyError
    \/ RenewableDivisionError
    \/ AddRenewableConstraints
    \/ EmissionsDivisionError
    \/ AddEmissionsConstraint
    \/ OptimizeError
    \/ Optimize
    \/ Analyze
    \/ LogFailure

Spec == Init /\ [][Next]_vars

-----------------------------------------------------------------------------
(* Properties *)

\* Every source of the model has its target capacity already installed.
TargetsAlreadyMet ==
    \A s \in filtered_sources : target_capacity[s] = current_capacity[s]

\* C1 (as the code has it): if the target capacity equals the current capacity
\* for every source, every Target constraint has right-hand side 0 and every
\* optimal solution has a target slack of 0 for every source.
C1_NoGapNoTargetSlack ==
    (TargetsAlreadyMet /\ "Target" \in constrs) =>
        /\ \A s \in filtered_sources : total_target_cost(s) = 0
        /\ status = "OPTIMAL" => \A s \in filtered_sources : X.Slack_Target[s] = 0

\* C1, witness: an optimal solution of a model whose sources all sit at a
\* positive target, and in which money is invested all the same.
C1_Witness ==
    /\ status = "OPTIMAL"
    /\ TargetsAlreadyMet
    /\ \E s \in filtered_sources : target_capacity[s] > 0
    /\ TotalInvestment(X) > 0

\* C1 (as the spec has it): if the target capacity equals the current capacity
\* for every source, every Target right-hand side is 0 and every optimal
\* solution has no investment in any source and year, and no target slack.
C1_NoGapNoInvestment ==
    (TargetsAlreadyMet /\ status = "OPTIMAL") =>
        /\ \A s \in filtered_sources : total_target_cost(s) = 0
        /\ \A p \in DOMAIN X.Investment : X.Investment[p] = 0
        /\ \A s \in filtered_sources : X.Slack_Target[s] = 0

\* C2: whatever the targets, capacities, positive capital costs and emission
\* factors, some assignment of non-negative values satisfies all six
\* constraint families, so a solve never ends INFEASIBLE.
C2_NeverInfeasible ==
    /\ status # "INFEASIBLE"
    /\ status = "OPTIMAL" => Feasible(X)

\* C2, witness: a solve that ended with all six families in the model, and with
\* both an amount of money and a physical quantity left to slack.
C2_Witness ==
    /\ status = "OPTIMAL"
    /\ constrs = {"Target", "Min_Budget", "Max_Budget", "Renewable_Capacity",
                  "Renewable_Production", "Emissions"}
    /\ MoneySlack(X) > 0
    /\ PhysicalSlack(X) > 0

\* C3: a capital cost of zero is detected before any variable is created and
\* before any constraint is added; the failure is never left to the line that
\* divides or to the solve.
C3_ZeroCostFailsFast ==
    ZeroCost(sources) =>
        /\ modelVars = {}
        /\ constrs = {}
        /\ crashLine \notin {125, 170, 182}

\* 10^11 rupees, in ticks
TenToThe11 == FloatLiteral(1, 11)

\* C4 (as the code has it): the total budget is 44 * 10^12; every Min_Budget
\* right-hand side is 0.8 * (44 * 10^12 / 7) and every Max_Budget bound is
\* 1.2 * (44 * 10^12 / 7), and a reported solution keeps to them.
C4_BudgetIs44e12 ==
    "Min_Budget" \in constrs =>
        /\ total_investment_budget = 440 * TenToThe11
        /\ 10 * NumYears * min_annual_budget = 8 * 440 * TenToThe11
        /\ 10 * NumYears * max_annual_budget = 12 * 440 * TenToThe11
        /\ status = "OPTIMAL" =>
              \A y \in years :
                 /\ 10 * NumYears * (InvestmentOfYear(X, y) + X.Slack_Min_Budget[y])
                       >= 8 * 440 * TenToThe11
                 /\ 10 * NumYears * (InvestmentOfYear(X, y) - X.Slack_Max_Budget[y])
                       <= 12 * 440 * TenToThe11

\* C4, witness: an optimal solution that invests exactly the least a year may
\* see, 0.8 * (44 * 10^12 / 7), with no budget slack.
C4_Witness ==
    /\ status = "OPTIMAL"
    /\ \A y \in years :
          /\ 10 * NumYears * InvestmentOfYear(X, y) = 8 * 440 * TenToThe11
          /\ X.Slack_Min_Budget[y] = 0

\* C4 (as the spec has it): the total budget is 44 * 10^11; every Min_Budget
\* right-hand side is 0.8 * (44 * 10^11 / 7) and every Max_Budget bound is
\* 1.2 * (44 * 10^11 / 7).
C4_BudgetIs44e11 ==
    "Min_Budget" \in constrs =>
        /\ total_investment_budget = 44 * TenToThe11
        /\ 10 * NumYears * min_annual_budget = 8 * 44 * TenToThe11
        /\ 10 * NumYears * max_annual_budget = 12 * 44 * TenToThe11

\* No slack variable has a larger value in b than in a.
NoSlackRaised(a, b) ==
    /\ \A s \in filtered_sources : b.Slack_Target[s] <= a.Slack_Target[s]
    /\ \A y \in years :
          /\ b.Slack_Min_Budget[y] <= a.Slack_Min_Budget[y]
          /\ b.Slack_Max_Budget[y] <= a.Slack_Max_Budget[y]
    /\ b.Slack_Renewable_Capacity <= a.Slack_Renewable_Capacity
    /\ b.Slack_Renewable_Production <= a.Slack_Renewable_Production
    /\ b.Slack_Emissions <= a.Slack_Emissions

\* Some slack variable has a smaller value in b than in a.
SomeSlackLowered(a, b) ==
    \/ \E s \in filtered_sources : b.Slack_Target[s] < a.Slack_Target[s]
    \/ \E y \in years :
          \/ b.Slack_Min_Budget[y] < a.Slack_Min_Budget[y]
          \/ b.Slack_Max_Budget[y] < a.Slack_Max_Budget[y]
    \/ b.Slack_Renewable_Capacity < a.Slack_Renewable_Capacity
    \/ b.Slack_Renewable_Production < a.Slack_Renewable_Production
    \/ b.Slack_Emissions < a.Slack_Emissions

\* C5: in an optimal solution a slack is positive only when investment cannot
\* meet its constraint instead: no feasible assignment invests more, has some
\* slack lower and no slack higher.
C5_SlackOnlyWhenNeeded ==
    status = "OPTIMAL" =>
        \A k \in Plans :
            LET b == WithLeastSlack(PlanInvestment(k))
            IN  ~ /\ Feasible(b)
                  /\ TotalInvestment(b) > TotalInvestment(X)
                  /\ NoSlackRaised(X, b)
                  /\ SomeSlackLowered(X, b)

\* C6: the model is built, without an exception, for every input with positive
\* capital costs whose filtered_sources is not empty, Solar alone included.
C6_ConstructionSucceeds ==
    (filtered_sources # {} /\ ~ZeroCost(sources)) => pc # "crashed"

\* C7: on OPTIMAL, every slack above the display threshold of each of the six
\* families has a warning in the report that gives that slack's value.
C7_EverySlackWarned ==
    report.printed =>
        /\ \A s \in filtered_sources :
              AboveThresholdMoney(X.Slack_Target[s]) =>
                 /\ s \in DOMAIN report.target_shortfall
                 /\ report.target_shortfall[s] = X.Slack_Target[s]
        /\ \A y \in years :
              /\ AboveThresholdMoney(X.Slack_Min_Budget[y]) =>
                    /\ y \in DOMAIN report.min_budget_shortfall
                    /\ report.min_budget_shortfall[y] = X.Slack_Min_Budget[y]
              /\ AboveThresholdMoney(X.Slack_Max_Budget[y]) =>
                    /\ y \in DOMAIN report.max_budget_exceeded
                    /\ report.max_budget_exceeded[y] = X.Slack_Max_Budget[y]
        /\ AboveThresholdPhys(X.Slack_Renewable_Capacity) =>
              report.renewable_capacity_shortfall = {X.Slack_Renewable_Capacity}
        /\ AboveThresholdPhys(X.Slack_Renewable_Production) =>
              report.renewable_production_shortfall = {X.Slack_Renewable_Production}
        /\ AboveThresholdPhys(X.Slack_Emissions) =>
              /\ report.emissions_message = "exceed"
              /\ report.emissions_delta = X.Slack_Emissions

\* C8: when the solve ends in a status other than OPTIMAL, the run reports
\* that status and nothing else: no value is read, no report line with a
\* number is printed, and optimize is not called again.
C8_NonOptimalOnlyStatus ==
    (pc \in {"check_status", "done"} /\ status # "OPTIMAL") =>
        /\ ~valuesRead
        /\ optimizeCalls = 1
        /\ pc = "check_status" => report = NoReport
        /\ pc = "done" => report = [NoReport EXCEPT !.failure_status = status]

\* C8, witness: a finished run whose solve ended SUBOPTIMAL, with a solution
\* that was there to be read.
C8_Witness ==
    /\ pc = "done"
    /\ status = "SUBOPTIMAL"
    /\ X # NoValues
    /\ report.failure_status = "SUBOPTIMAL"

\* C9: in every reported solution all investment and slack values are
\* non-negative and, for every source, the investment over the years plus the
\* target slack is at least (target - current capacity) * capital cost.
C9_ReportedSolutionSound ==
    report.printed =>
        /\ \A p \in DOMAIN X.Investment : X.Investment[p] >= 0
        /\ \A s \in filtered_sources : X.Slack_Target[s] >= 0
        /\ \A y \in years : X.Slack_Min_Budget[y] >= 0 /\ X.Slack_Max_Budget[y] >= 0
        /\ X.Slack_Renewable_Capacity >= 0
        /\ X.Slack_Renewable_Production >= 0
        /\ X.Slack_Emissions >= 0
        /\ \A s \in filtered_sources :
              InvestmentOfSource(X, s) + X.Slack_Target[s]
                 >= (target_capacity[s] - current_capacity[s]) * capital_cost[s]

\* C9, witness: a reported solution in which one source's gap is closed by
\* investment and another source's gap is left to its target slack.
C9_Witness ==
    /\ report.printed
    /\ \E s \in filtered_sources :
          /\ target_capacity[s] > current_capacity[s]
          /\ InvestmentOfSource(X, s) > 0
          /\ X.Slack_Target[s] = 0
    /\ \E s \in filtered_sources : X.Slack_Target[s] > 0

\* C10: on OPTIMAL the report says that emissions exceed the target exactly
\* when the solution breaks the Emissions constraint without its slack, that
\* is when the slack of the constraint is positive.
C10_ExceedIffConstraintBroken ==
    report.printed =>
        /\ report.emissions_message = "exceed"
              <=> EmissionsExpr(X) > total_emission_target
        /\ report.emissions_message = "exceed" <=> X.Slack_Emissions > 0

=============================================================================
